---- MODULE Spec2Model ----
(***************************************************************************)
(* A model of the sliding puzzle of src/src/main.rs: the board kept by     *)
(* struct Model, the operations of impl Model, and the handlers (event,    *)
(* update, window_resized) that nannou calls.                              *)
(*                                                                         *)
(* The specifications share the state and the operators:                  *)
(*   Spec        the board operations (reset, try_move,                    *)
(*               do_one_random_move) called in any order on boards of side *)
(*               2 .. MaxGridSize, at most MaxMoves moves away from the    *)
(*               solved board;                                             *)
(*   RenderSpec  update_image and window_resized on boards the moves       *)
(*               reach, for solved images of side 2 .. MaxImgSize;        *)
(*   AppSpec     the event loop (event, update) on a 2 x 2 board, where a  *)
(*               scramble runs its full course (AppFairSpec: with update   *)
(*               called again and again);                                  *)
(*   LoopSpec    Spec with the rejection loop of do_one_random_move taken  *)
(*               one sample at a time, under fair sampling;                *)
(*   ClickSpec   the board under mouse clicks mapped by mouse_clicked;     *)
(*   BoundsSpec  Spec with try_move also called outside the board;         *)
(*   KeysSpec    the key events and window_resized on any image list;      *)
(*   OneScrambleSpec  one S press and the update ticks that follow it.     *)
(***************************************************************************)
EXTENDS Integers, Sequences, FiniteSets, TLC

VARIABLES
    grid_size,            \* Model.grid_size
    flag_scramble,        \* Model.flag_scramble
    flag_show_numbers,    \* Model.flag_show_numbers
    scramble_count,       \* Model.scramble_count
    board,                \* Model.board: board[row][col], row 0 the bottom row
    image_list_len,       \* Model.image_list.len()
    image_index_current,  \* Model.image_index_current
    image_original,       \* Model.image_original: 0 the white placeholder, i+1 the file i
    image_solved,         \* Model.image_solved: [size, px]
    image,                \* Model.image: [size, px]
    panicked,             \* the process has aborted (an unwrap, an index or an arithmetic panic)
    last_op,              \* history: the last operation, its arguments and the board before it
    trail,                \* history: the boards since the last solved_board, one per applied move
    scramble_moves,       \* history: do_one_random_move calls since the S key started a scramble
    pc                    \* "idle", or "sampling" inside the loop of do_one_random_move

vars == <<grid_size, flag_scramble, flag_show_numbers, scramble_count, board,
          image_list_len, image_index_current, image_original, image_solved,
          image, panicked, last_op, trail, scramble_moves, pc>>

(***************************************************************************)
(* Bounds of the model.                                                    *)
(***************************************************************************)
MaxGridSize == 3
MaxMoves == 4
MaxImgSize == 6

(***************************************************************************)
(* The board.                                                              *)
(***************************************************************************)
Cells(size) == (0 .. size - 1) \X (0 .. size - 1)

Side(b) == Cardinality(DOMAIN b)

\* solved_board clearing board[size - 1][size - 1] in place of board[0][size - 1]
solved_board_last_row(size) ==
    LET filled == [row \in 0 .. size - 1 |->
                      [col \in 0 .. size - 1 |-> (size - row - 1) * size + col + 1]]
    IN  [filled EXCEPT ![size - 1][size - 1] = 0]

solved_board(size) ==
    LET filled == [row \in 0 .. size - 1 |->
                      [col \in 0 .. size - 1 |-> (size - row - 1) * size + col + 1]]
    IN  [filled EXCEPT ![0][size - 1] = 0]

\* reset that forgets to assign the board
reset_keeps_board(b, size) == b

reset(b, size) == solved_board(size)

\* .position(..).unwrap() finds no row holding 0
index_empty_panics(b) ==
    ~ \E row \in DOMAIN b : \E col \in DOMAIN b[row] : b[row][col] = 0

\* <<ix, iy>>: the first row holding 0 and the first 0 in it
index_empty(b) ==
    LET iy == CHOOSE r \in DOMAIN b :
                  /\ \E col \in DOMAIN b[r] : b[r][col] = 0
                  /\ \A q \in DOMAIN b :
                        (\E col \in DOMAIN b[q] : b[q][col] = 0) => r <= q
        ix == CHOOSE c \in DOMAIN b[iy] :
                  /\ b[iy][c] = 0
                  /\ \A q \in DOMAIN b[iy] : b[iy][q] = 0 => c <= q
    IN  <<ix, iy>>

abs_diff(a, b) == IF a >= b THEN a - b ELSE b - a

\* is_move_valid taking the larger of the two distances (diagonals pass)
is_move_valid_chebyshev(b, ix, iy) ==
    LET e == index_empty(b)
        dx == abs_diff(ix, e[1])
        dy == abs_diff(iy, e[2])
    IN  (IF dx >= dy THEN dx ELSE dy) = 1

is_move_valid(b, ix, iy) ==
    LET e == index_empty(b)
    IN  abs_diff(ix, e[1]) + abs_diff(iy, e[2]) = 1

InBounds(b, ix, iy) == iy \in DOMAIN b /\ ix \in DOMAIN b[iy]

\* try_move panics: no empty slot, or a valid move whose cell is outside the board
try_move_panics(b, ix, iy) ==
    \/ index_empty_panics(b)
    \/ is_move_valid(b, ix, iy) /\ ~InBounds(b, ix, iy)

\* try_move clearing board[ix][iy] in place of board[iy][ix]
try_move_swapped_index(b, ix, iy) ==
    IF is_move_valid(b, ix, iy)
    THEN LET e == index_empty(b)
             b1 == [b EXCEPT ![e[2]][e[1]] = b[iy][ix]]
         IN  [b1 EXCEPT ![ix][iy] = 0]
    ELSE b

try_move(b, ix, iy) ==
    IF is_move_valid(b, ix, iy)
    THEN LET e == index_empty(b)
             b1 == [b EXCEPT ![e[2]][e[1]] = b[iy][ix]]
         IN  [b1 EXCEPT ![iy][ix] = 0]
    ELSE b

\* a scramble step that swaps two random cells
do_one_random_move_swap(b) ==
    {[b EXCEPT ![p[2]][p[1]] = b[q[2]][q[1]], ![q[2]][q[1]] = b[p[2]][p[1]]] :
        <<p, q>> \in {pq \in Cells(Side(b)) \X Cells(Side(b)) : pq[1] # pq[2]}}

\* the boards one do_one_random_move can leave: the loop ends on the first
\* sampled cell that is a valid move
do_one_random_move(b) ==
    {try_move(b, t[1], t[2]) :
        t \in {c \in Cells(Side(b)) : is_move_valid(b, c[1], c[2])}}

(***************************************************************************)
(* Images. A pixel is a number: Blank (transparent, what new_rgba8 fills   *)
(* with), White (the placeholder) or, for a file, a number naming the      *)
(* pixel's place, so that two pixels of a solved image are never equal.    *)
(***************************************************************************)
Blank == 0
White == 1

Pixels(size) == (0 .. size - 1) \X (0 .. size - 1)

new_rgba8(size) == [size |-> size, px |-> [p \in Pixels(size) |-> Blank]]

resize_to_fill(orig, size) ==
    [size |-> size,
     px |-> [p \in Pixels(size) |->
                IF orig = 0 THEN White
                ELSE orig * 10000 + p[2] * 100 + p[1] + 2]]

\* crop_imm: the w x h view of img at (x0, y0)
crop_imm(img, x0, y0, w, h) ==
    [w |-> w, h |-> h,
     px |-> [d \in (0 .. w - 1) \X (0 .. h - 1) |-> img.px[<<x0 + d[1], y0 + d[2]>>]]]

\* copy_from returns Err (and .expect panics) when the square does not fit
copy_from_fails(dst, sq, x, y) == dst.size < sq.w + x \/ dst.size < sq.h + y

copy_from(dst, sq, x, y) ==
    [dst EXCEPT !.px =
        [p \in Pixels(dst.size) |->
            IF /\ x <= p[1] /\ p[1] < x + sq.w
               /\ y <= p[2] /\ p[2] < y + sq.h
            THEN sq.px[<<p[1] - x, p[2] - y>>]
            ELSE dst.px[p]]]

\* the pixel row of a cell without the flip: row 0 at the top of the image
dest_y_no_flip(size, row, cell_size) == row * cell_size

\* let y = size - ((row + 1) * cell_size)
dest_y(size, row, cell_size) == size - (row + 1) * cell_size

\* the body of update_image's loops for the cell (row, col)
paste_piece(b, n, solved, img, row, col) ==
    LET size == solved.size
        cell_size == size \div n
        piece == b[row][col]
        x0 == ((piece - 1) % n) * cell_size
        y0 == ((piece - 1) \div n) * cell_size
        little_square == crop_imm(solved, x0, y0, cell_size, cell_size)
        x == col * cell_size
        y == dest_y(size, row, cell_size)
    IN  IF piece # 0 THEN copy_from(img, little_square, x, y) ELSE img

paste_piece_fails(b, n, solved, row, col) ==
    LET size == solved.size
        cell_size == size \div n
        piece == b[row][col]
    IN  /\ piece # 0
        /\ \/ dest_y(size, row, cell_size) < 0
           \/ copy_from_fails(new_rgba8(size),
                              [w |-> cell_size, h |-> cell_size],
                              col * cell_size, dest_y(size, row, cell_size))

\* the cells k .. n * n - 1 in the order of the loops: row by row, col by col
RECURSIVE paste_from(_, _, _, _, _)
paste_from(b, n, solved, img, k) ==
    IF k >= n * n THEN img
    ELSE paste_from(b, n, solved,
                    paste_piece(b, n, solved, img, k \div n, k % n), k + 1)

update_image_panics(b, n, solved) ==
    \E c \in Cells(n) : paste_piece_fails(b, n, solved, c[2], c[1])

\* update_image pasting over the image on display instead of a new buffer
update_image_patches(b, n, solved) ==
    paste_from(b, n, solved,
               IF image.size = solved.size THEN image ELSE new_rgba8(solved.size), 0)

update_image(b, n, solved) == paste_from(b, n, solved, new_rgba8(solved.size), 0)

\* a last_op entry for an operation without a target cell
NoOp(name, b) == [op |-> name, ix |-> 0, iy |-> 0, before |-> b]

(***************************************************************************)
(* Init: fn model builds the solved board; image_list has one of lens      *)
(* files, the solved image one of img_sizes sides. The board operations    *)
(* start there (depth 0). For update_image, a pure function of the board   *)
(* and the solved image, the board is drawn from those that at most depth  *)
(* moves reach, trail being the walk that reached it.                      *)
(***************************************************************************)
RECURSIVE Walks(_, _)
Walks(size, k) ==
    IF k = 0 THEN {<<solved_board(size)>>}
    ELSE LET shorter == Walks(size, k - 1)
         IN  shorter \cup
                 UNION {{Append(w, nb) : nb \in do_one_random_move(w[Len(w)])} :
                           w \in {v \in shorter : Len(v) = k}}

InitModel(sizes, lens, img_sizes, depth) ==
    /\ grid_size \in sizes
    /\ flag_scramble = FALSE
    /\ flag_show_numbers = TRUE
    /\ scramble_count = 0
    /\ trail \in Walks(grid_size, depth)
    /\ board = trail[Len(trail)]
    /\ image_list_len \in lens
    /\ image_index_current = 0
    /\ image_original = IF image_list_len = 0 THEN 0 ELSE 1
    /\ \E s \in img_sizes : image_solved = resize_to_fill(image_original, s)
    /\ image = image_solved
    /\ panicked = FALSE
    /\ last_op = NoOp("model", trail[1])
    /\ scramble_moves = 0
    /\ pc = "idle"

Init == InitModel(2 .. MaxGridSize, {1}, {MaxImgSize}, 0)

(***************************************************************************)
(* The board operations.                                                   *)
(***************************************************************************)
Untouched ==
    UNCHANGED <<grid_size, flag_scramble, flag_show_numbers, scramble_count,
                image_list_len, image_index_current, image_original,
                image_solved, image, scramble_moves, pc>>

Reset ==
    /\ ~panicked
    /\ board' = reset(board, grid_size)
    /\ last_op' = NoOp("reset", board)
    /\ trail' = <<board'>>
    /\ UNCHANGED panicked
    /\ Untouched

TryMove(ix, iy) ==
    /\ ~panicked
    /\ IF try_move_panics(board, ix, iy)
       THEN /\ panicked' = TRUE
            /\ UNCHANGED <<board, trail>>
       ELSE /\ is_move_valid(board, ix, iy) => Len(trail) <= MaxMoves
            /\ board' = try_move(board, ix, iy)
            /\ trail' = IF board' # board THEN Append(trail, board') ELSE trail
            /\ UNCHANGED panicked
    /\ last_op' = [op |-> "try_move", ix |-> ix, iy |-> iy, before |-> board]
    /\ Untouched

DoOneRandomMove ==
    /\ ~panicked
    /\ IF index_empty_panics(board)
       THEN /\ panicked' = TRUE
            /\ UNCHANGED <<board, trail>>
            /\ last_op' = NoOp("do_one_random_move", board)
       ELSE /\ Len(trail) <= MaxMoves
            /\ board' \in do_one_random_move(board)
            /\ trail' = Append(trail, board')
            /\ UNCHANGED panicked
            /\ last_op' = IF index_empty_panics(board')
                          THEN NoOp("do_one_random_move", board)
                          ELSE [op |-> "do_one_random_move",
                                ix |-> index_empty(board')[1],
                                iy |-> index_empty(board')[2],
                                before |-> board]
    /\ Untouched

Next ==
    \/ Reset
    \/ \E ix \in 0 .. grid_size - 1 : \E iy \in 0 .. grid_size - 1 : TryMove(ix, iy)
    \/ DoOneRandomMove

Spec == Init /\ [][Next]_vars

(***************************************************************************)
(* RenderSpec: update_image and window_resized. The board is one that at   *)
(* most MaxMoves moves reach from the solved board (trail is the walk      *)
(* that reached it); the displayed image is still the one fn model made.   *)
(***************************************************************************)
ImgSizes == 2 .. MaxImgSize

RenderInit == InitModel(2 .. MaxGridSize, {0, 1}, ImgSizes, MaxMoves)

UpdateImage ==
    /\ ~panicked
    /\ IF update_image_panics(board, grid_size, image_solved)
       THEN panicked' = TRUE /\ UNCHANGED image
       ELSE image' = update_image(board, grid_size, image_solved) /\ UNCHANGED panicked
    /\ last_op' = NoOp("update_image", board)
    /\ UNCHANGED <<grid_size, flag_scramble, flag_show_numbers, scramble_count, board,
                   image_list_len, image_index_current, image_original,
                   image_solved, trail, scramble_moves, pc>>

\* window_resized: s is the img_size computed from the new dimensions
WindowResized(s) ==
    /\ ~panicked
    /\ image_solved' = resize_to_fill(image_original, s)
    /\ last_op' = NoOp("window_resized", board)
    /\ UNCHANGED <<grid_size, flag_scramble, flag_show_numbers, scramble_count, board,
                   image_list_len, image_index_current, image_original,
                   image, panicked, trail, scramble_moves, pc>>

RenderNext ==
    \/ UpdateImage
    \/ \E s \in ImgSizes : WindowResized(s)

RenderSpec == RenderInit /\ [][RenderNext]_vars

(***************************************************************************)
(* AppSpec: fn event and fn update as nannou calls them, on a 2 x 2 board. *)
(* Events arrive in any order and any number between two updates. A click  *)
(* on the board's right or top edge maps to the index grid_size. The       *)
(* history kept here is scramble_moves; last_op and trail stay as they     *)
(* were.                                                                   *)
(***************************************************************************)
ScrambleLimit == 100

\* what AppSpec starts from: the board's side, the files in the list, the image's side
AppGridSizes == {2}
AppImageCounts == {2}
AppImgSizes == {2}

AppInit == InitModel(AppGridSizes, AppImageCounts, AppImgSizes, 0)

AppFrame == UNCHANGED <<grid_size, image_list_len, last_op, trail, pc>>

\* the scramble stopped as soon as the counter reaches the limit
scramble_ends_early(count) == count >= ScrambleLimit

\* the scramble stopped one tick late
scramble_ends_late(count) == count > ScrambleLimit + 1

\* model.scramble_count += 1; if model.scramble_count > 100
scramble_ends(count) == count > ScrambleLimit

\* MousePressed: mouse_clicked has mapped the click to the cell (ix, iy)
MousePressed(ix, iy) ==
    /\ ~panicked
    /\ IF try_move_panics(board, ix, iy)
       THEN panicked' = TRUE /\ UNCHANGED board
       ELSE board' = try_move(board, ix, iy) /\ UNCHANGED panicked
    /\ UNCHANGED <<flag_scramble, flag_show_numbers, scramble_count,
                   image_index_current, image_original, image_solved, image,
                   scramble_moves>>
    /\ AppFrame

\* MousePressed outside the board: mouse_clicked returns early
MousePressedOutside ==
    /\ ~panicked
    /\ UNCHANGED <<flag_scramble, flag_show_numbers, scramble_count, board,
                   image_index_current, image_original, image_solved, image,
                   panicked, scramble_moves>>
    /\ AppFrame

KeyR ==
    /\ ~panicked
    /\ board' = reset(board, grid_size)
    /\ UNCHANGED <<flag_scramble, flag_show_numbers, scramble_count,
                   image_index_current, image_original, image_solved, image,
                   panicked, scramble_moves>>
    /\ AppFrame

KeyN ==
    /\ ~panicked
    /\ flag_show_numbers' = ~flag_show_numbers
    /\ UNCHANGED <<flag_scramble, scramble_count, board,
                   image_index_current, image_original, image_solved, image,
                   panicked, scramble_moves>>
    /\ AppFrame

\* change_image: open the file at the current index, resize it to the solved image's side
ChangeImage(index) ==
    /\ image_index_current' = index
    /\ image_original' = index + 1
    /\ image_solved' = resize_to_fill(index + 1, image_solved.size)

\* self.image_index_current = (self.image_index_current + 1) % self.image_list.len()
next_index(index, len) == (index + 1) % len

\* if self.image_index_current == 0 { len - 1 } else { index - 1 }
previous_index(index, len) == IF index = 0 THEN len - 1 ELSE index - 1

\* next_image that also puts the board back to the solved layout
KeyPeriod_resets_board ==
    /\ ~panicked
    /\ image_list_len > 0
    /\ ChangeImage(next_index(image_index_current, image_list_len))
    /\ board' = reset(board, grid_size)
    /\ UNCHANGED <<flag_scramble, flag_show_numbers, scramble_count,
                   image, scramble_moves, panicked>>
    /\ AppFrame

\* next_image: (index + 1) % len panics on an empty list
KeyPeriod ==
    /\ ~panicked
    /\ IF image_list_len = 0
       THEN /\ panicked' = TRUE
            /\ UNCHANGED <<image_index_current, image_original, image_solved>>
       ELSE /\ ChangeImage(next_index(image_index_current, image_list_len))
            /\ UNCHANGED panicked
    /\ UNCHANGED <<flag_scramble, flag_show_numbers, scramble_count, board,
                   image, scramble_moves>>
    /\ AppFrame

\* previous_image: len - 1 overflows on an empty list (a panic, or an index
\* past the list, which panics in change_image)
KeyComma ==
    /\ ~panicked
    /\ IF image_list_len = 0
       THEN /\ panicked' = TRUE
            /\ UNCHANGED <<image_index_current, image_original, image_solved>>
       ELSE /\ ChangeImage(previous_index(image_index_current, image_list_len))
            /\ UNCHANGED panicked
    /\ UNCHANGED <<flag_scramble, flag_show_numbers, scramble_count, board,
                   image, scramble_moves>>
    /\ AppFrame

KeyS ==
    /\ ~panicked
    /\ flag_scramble' = TRUE
    /\ scramble_moves' = IF flag_scramble THEN scramble_moves ELSE 0
    /\ UNCHANGED <<flag_show_numbers, scramble_count, board,
                   image_index_current, image_original, image_solved, image,
                   panicked>>
    /\ AppFrame

\* update: one scramble step while flag_scramble is set, then update_image
Update ==
    /\ ~panicked
    /\ IF flag_scramble
       THEN IF index_empty_panics(board)
            THEN /\ panicked' = TRUE
                 /\ UNCHANGED <<board, scramble_count, flag_scramble, scramble_moves, image>>
            ELSE /\ board' \in do_one_random_move(board)
                 /\ scramble_moves' = scramble_moves + 1
                 /\ IF scramble_ends(scramble_count + 1)
                    THEN scramble_count' = 0 /\ flag_scramble' = FALSE
                    ELSE scramble_count' = scramble_count + 1 /\ UNCHANGED flag_scramble
                 /\ IF update_image_panics(board', grid_size, image_solved)
                    THEN panicked' = TRUE /\ UNCHANGED image
                    ELSE /\ image' = update_image(board', grid_size, image_solved)
                         /\ UNCHANGED panicked
       ELSE /\ UNCHANGED <<board, scramble_count, flag_scramble, scramble_moves>>
            /\ IF update_image_panics(board, grid_size, image_solved)
               THEN panicked' = TRUE /\ UNCHANGED image
               ELSE /\ image' = update_image(board, grid_size, image_solved)
                    /\ UNCHANGED panicked
    /\ UNCHANGED <<flag_show_numbers, image_index_current, image_original, image_solved>>
    /\ AppFrame

AppNext ==
    \/ \E ix \in 0 .. grid_size : \E iy \in 0 .. grid_size : MousePressed(ix, iy)
    \/ MousePressedOutside
    \/ KeyR
    \/ KeyN
    \/ KeyPeriod
    \/ KeyComma
    \/ KeyS
    \/ Update

AppSpec == AppInit /\ [][AppNext]_vars

(***************************************************************************)
(* KeysSpec: the key events and window_resized, for image lists of 0 to    *)
(* MaxImages files. These handlers neither read nor step the scramble, so  *)
(* the state they start from is drawn: a board some clicks have reached,   *)
(* and either no scramble or one in progress at its first, second or last  *)
(* tick.                                                                   *)
(***************************************************************************)
MaxImages == 3

ScrambleProgress == {0, 1, ScrambleLimit}

KeysInit ==
    /\ grid_size \in AppGridSizes
    /\ flag_scramble \in BOOLEAN
    /\ scramble_count \in IF flag_scramble THEN ScrambleProgress ELSE {0}
    /\ scramble_moves = scramble_count
    /\ flag_show_numbers = TRUE
    /\ trail \in Walks(grid_size, MaxMoves)
    /\ board = trail[Len(trail)]
    /\ image_list_len \in 0 .. MaxImages
    /\ image_index_current = 0
    /\ image_original = IF image_list_len = 0 THEN 0 ELSE 1
    /\ image_solved = resize_to_fill(image_original, MaxImgSize)
    /\ image = image_solved
    /\ panicked = FALSE
    /\ last_op = NoOp("model", trail[1])
    /\ pc = "idle"

KeysNext ==
    \/ KeyR
    \/ KeyN
    \/ KeyPeriod
    \/ KeyComma
    \/ KeyS
    \/ \E s \in ImgSizes : WindowResized(s)

KeysSpec == KeysInit /\ [][KeysNext]_vars

(***************************************************************************)
(* OneScrambleSpec: one scramble and nothing else. The board is one some   *)
(* clicks have reached (trail is the walk to it and stays as it is), the S *)
(* key is pressed once, and only update runs from there on.                *)
(***************************************************************************)
OneScrambleInit == InitModel(AppGridSizes, AppImageCounts, AppImgSizes, MaxMoves)

\* the S key, pressed while no scramble has been made yet
FirstKeyS == ~flag_scramble /\ scramble_moves = 0 /\ KeyS

OneScrambleNext ==
    \/ FirstKeyS
    \/ Update

OneScrambleSpec == OneScrambleInit /\ [][OneScrambleNext]_vars

(***************************************************************************)
(* AppFairSpec: the event loop with update called again and again. The S   *)
(* key sets LoopMode::RefreshSync, under which update runs every frame, so *)
(* while a scramble is on, update is not postponed for ever by events;     *)
(* the end of the scramble sets LoopMode::Wait again.                      *)
(***************************************************************************)
AppFairSpec == AppSpec /\ WF_vars(flag_scramble /\ Update)

(***************************************************************************)
(* LoopSpec: the board operations with do_one_random_move taken one        *)
(* iteration of its loop at a time. A sample that is not a valid move      *)
(* changes nothing and the loop goes round again. random_range draws each  *)
(* cell with the same positive probability, so a loop that keeps having a  *)
(* valid cell to draw leaves with probability 1: weak fairness of the      *)
(* accepted sample.                                                        *)
(***************************************************************************)
\* random_range(0, grid_size - 1): the last row and column are never drawn
sample_cells_short(size) == (0 .. size - 2) \X (0 .. size - 2)

\* the cells random_range(0, self.grid_size) draws for ix and for iy
sample_cells(size) == (0 .. size - 1) \X (0 .. size - 1)

Idle(A) == pc = "idle" /\ A

\* do_one_random_move is called: the loop is entered
EnterLoop ==
    /\ ~panicked
    /\ pc = "idle"
    /\ Len(trail) <= MaxMoves
    /\ pc' = "sampling"
    /\ last_op' = NoOp("enter_loop", board)
    /\ UNCHANGED <<grid_size, flag_scramble, flag_show_numbers, scramble_count, board,
                   image_list_len, image_index_current, image_original,
                   image_solved, image, panicked, trail, scramble_moves>>

\* one iteration that draws (ix, iy): a valid move is applied and the loop
\* returns, anything else leaves the state as it is
Sample(ix, iy) ==
    /\ ~panicked
    /\ pc = "sampling"
    /\ IF index_empty_panics(board)
       THEN /\ panicked' = TRUE
            /\ UNCHANGED <<board, trail, pc, last_op>>
       ELSE IF is_move_valid(board, ix, iy)
            THEN /\ board' = try_move(board, ix, iy)
                 /\ trail' = Append(trail, board')
                 /\ pc' = "idle"
                 /\ last_op' = [op |-> "do_one_random_move", ix |-> ix, iy |-> iy,
                                before |-> board]
                 /\ UNCHANGED panicked
            ELSE UNCHANGED <<board, trail, pc, last_op, panicked>>
    /\ UNCHANGED <<grid_size, flag_scramble, flag_show_numbers, scramble_count,
                   image_list_len, image_index_current, image_original,
                   image_solved, image, scramble_moves>>

SampleAny == \E c \in sample_cells(grid_size) : Sample(c[1], c[2])

\* the iteration that leaves the loop
SampleAccepted == SampleAny /\ pc' = "idle"

LoopNext ==
    \/ Idle(Reset)
    \/ \E ix \in 0 .. grid_size - 1 : \E iy \in 0 .. grid_size - 1 : Idle(TryMove(ix, iy))
    \/ EnterLoop
    \/ SampleAny

LoopSpec == Init /\ [][LoopNext]_vars /\ WF_vars(SampleAccepted)

(***************************************************************************)
(* ClickSpec: the board under mouse clicks, with mouse_clicked computing   *)
(* the cell from the mouse position. The window is the square start        *)
(* window. The f32 arithmetic of mouse_clicked is exact on the values      *)
(* used here (window side 300, pad 30, cells of 240 / grid_size, mouse     *)
(* positions on multiples of 15, quotients at least 1/240 away from the    *)
(* next integer unless they are integers), so integers model it.           *)
(***************************************************************************)
START_WINDOW_SIZE == 300

\* win.h() * PAD_HEIGHT_FACTOR, the factor being 0.1
pad(h) == h \div 10

\* x as usize for x = num / den with den > 0: truncation, negatives give 0
as_usize(num, den) == IF num < 0 THEN 0 ELSE num \div den

min(a, b) == IF a < b THEN a ELSE b

max(a, b) == IF a > b THEN a ELSE b

abs(a) == IF a < 0 THEN -a ELSE a

cell_size_of(w, h, n) == (min(h, w) - 2 * pad(h)) \div n

board_size_of(w, h, n) == cell_size_of(w, h, n) * n

\* mouse_x.abs().max(mouse_y.abs()) > board_size / 2.0, both sides doubled
clicked_outside(mx, my, w, h, n) == 2 * max(abs(mx), abs(my)) > board_size_of(w, h, n)

x_offset(w, h, n) == (w - 2 * pad(h) - board_size_of(w, h, n)) \div 2

y_offset(w, h, n) == (h - 2 * pad(h) - board_size_of(w, h, n)) \div 2

ix_clicked(mx, w, h, n) ==
    as_usize(n * (mx + w \div 2 - pad(h) - x_offset(w, h, n)),
             w - 2 * pad(h) - 2 * x_offset(w, h, n))

iy_clicked(my, w, h, n) ==
    as_usize(n * (my + h \div 2 - pad(h) - 2 * y_offset(w, h, n)),
             h - 2 * pad(h) - y_offset(w, h, n))

\* mouse positions inside a window of the given side, the centre being 0
MouseCoords(side) == {k * (side \div 20) : k \in -10 .. 10}

MouseClicked(mx, my) ==
    LET w == START_WINDOW_SIZE
        h == START_WINDOW_SIZE
    IN  IF clicked_outside(mx, my, w, h, grid_size)
        THEN /\ ~panicked
             /\ last_op' = NoOp("clicked_outside", board)
             /\ UNCHANGED <<board, trail, panicked>>
             /\ Untouched
        ELSE TryMove(ix_clicked(mx, w, h, grid_size), iy_clicked(my, w, h, grid_size))

ClickNext ==
    \/ Reset
    \/ \E mx \in MouseCoords(START_WINDOW_SIZE) :
         \E my \in MouseCoords(START_WINDOW_SIZE) : MouseClicked(mx, my)

ClickSpec == Init /\ [][ClickNext]_vars

(***************************************************************************)
(* BoundsSpec: try_move called with any pair of indices, those past the    *)
(* last row and column included (try_move is public and takes usize).      *)
(***************************************************************************)
\* the indices try_move is called with: the board and a margin around it
TargetRange(size) == 0 .. size + 1

BoundsNext ==
    \/ Reset
    \/ \E ix \in TargetRange(grid_size) : \E iy \in TargetRange(grid_size) : TryMove(ix, iy)

BoundsSpec == Init /\ [][BoundsNext]_vars

(***************************************************************************)
(* Properties of the board operations, checked under Spec.                 *)
(***************************************************************************)
\* a grid written as the source prints it: rows[1] is board[0]
Grid(rows) ==
    [r \in 0 .. Len(rows) - 1 |->
        [c \in 0 .. Len(rows[r + 1]) - 1 |-> rows[r + 1][c + 1]]]

Count(b, size, v) == Cardinality({c \in Cells(size) : b[c[2]][c[1]] = v})

Manhattan(ix, iy, e) ==
    (IF ix >= e[1] THEN ix - e[1] ELSE e[1] - ix)
        + (IF iy >= e[2] THEN iy - e[2] ELSE e[2] - iy)

\* C1: in every reachable state the board is a grid_size x grid_size grid that
\* holds every integer of 0 .. grid_size * grid_size - 1 exactly once, so exactly
\* one cell is 0 and index_empty finds it without panicking.
C1_Permutation ==
    /\ DOMAIN board = 0 .. grid_size - 1
    /\ \A row \in DOMAIN board : DOMAIN board[row] = 0 .. grid_size - 1
    /\ \A v \in 0 .. grid_size * grid_size - 1 : Count(board, grid_size, v) = 1
    /\ Count(board, grid_size, 0) = 1
    /\ ~index_empty_panics(board)

\* C1 witness: a board several moves away from solved, left by a scramble step.
C1_Witness ==
    /\ last_op.op = "do_one_random_move"
    /\ Len(trail) = MaxMoves + 1
    /\ board # solved_board(grid_size)
    /\ \E i \in 1 .. Len(trail) - 1 : trail[i] = solved_board(grid_size)

Fresh == last_op.op \in {"model", "reset"}

\* C2 as amended: solved_board(n) holds (n - row - 1) * n + col + 1 in cell
\* (row, col), except that the cell of row 0 and column n - 1 holds 0; for
\* n = 3 the grid is [[7,8,0],[4,5,6],[1,2,3]].
C2_SolvedLayout ==
    Fresh =>
        /\ \A row \in 0 .. grid_size - 1 : \A col \in 0 .. grid_size - 1 :
              board[row][col] =
                  IF row = 0 /\ col = grid_size - 1 THEN 0
                  ELSE (grid_size - row - 1) * grid_size + col + 1
        /\ grid_size = 3 => board = Grid(<<<<7, 8, 0>>, <<4, 5, 6>>, <<1, 2, 3>>>>)

\* C2 witness: a freshly constructed 3 x 3 board.
C2_Witness == last_op.op = "model" /\ grid_size = 3

\* C2 as stated: the cell of row n - 1 and column n - 1 holds 0 and every
\* other cell (n - row - 1) * n + col + 1; for n = 3 the grid is
\* [[7,8,9],[4,5,6],[1,2,0]].
C2_Original ==
    Fresh =>
        /\ \A row \in 0 .. grid_size - 1 : \A col \in 0 .. grid_size - 1 :
              board[row][col] =
                  IF row = grid_size - 1 /\ col = grid_size - 1 THEN 0
                  ELSE (grid_size - row - 1) * grid_size + col + 1
        /\ grid_size = 3 => board = Grid(<<<<7, 8, 9>>, <<4, 5, 6>>, <<1, 2, 0>>>>)

LegalTargets(b) ==
    {c \in Cells(Side(b)) : is_move_valid(b, c[1], c[2])}

AfterFirstMove(ix, iy) ==
    /\ grid_size = 3
    /\ last_op.op = "try_move" /\ last_op.ix = ix /\ last_op.iy = iy
    /\ Len(trail) <= 2
    /\ last_op.before = trail[1]

\* C3 as amended: on a fresh 3 x 3 board index_empty returns (col 2, row 0),
\* the legal targets are exactly (1,0) and (2,1), try_move(1,0) moves tile 8
\* into the empty cell leaving [[7,0,8],[4,5,6],[1,2,3]], and
\* is_move_valid(0,0) is false, (0,0) being at Manhattan distance 2.
C3_LegalFromSolved ==
    /\ (Fresh /\ grid_size = 3) =>
          /\ index_empty(board) = <<2, 0>>
          /\ LegalTargets(board) = {<<1, 0>>, <<2, 1>>}
          /\ ~is_move_valid(board, 0, 0)
          /\ Manhattan(0, 0, index_empty(board)) = 2
    /\ AfterFirstMove(1, 0) =>
          /\ last_op.before[0][1] = 8
          /\ board = Grid(<<<<7, 0, 8>>, <<4, 5, 6>>, <<1, 2, 3>>>>)

\* C3 witness: try_move(1,0) has been applied to a fresh 3 x 3 board.
C3_Witness == AfterFirstMove(1, 0) /\ board # last_op.before

\* C3 as stated: index_empty returns (2,2), the legal targets are (1,2) and
\* (2,1), try_move(1,2) leaves [[7,8,9],[4,5,6],[1,0,2]], and (0,0) is at
\* distance 3.
C3_Original ==
    /\ (Fresh /\ grid_size = 3) =>
          /\ index_empty(board) = <<2, 2>>
          /\ LegalTargets(board) = {<<1, 2>>, <<2, 1>>}
          /\ ~is_move_valid(board, 0, 0)
          /\ Manhattan(0, 0, index_empty(board)) = 3
    /\ AfterFirstMove(1, 2) =>
          board = Grid(<<<<7, 8, 9>>, <<4, 5, 6>>, <<1, 0, 2>>>>)

\* C4: try_move(ix, iy) with an in-bounds target changes the board if and only
\* if the target was at Manhattan distance 1 from the empty cell before the
\* call; a diagonal neighbour and the empty cell itself leave it unchanged.
C4_MutatesIffLegal ==
    (last_op.op = "try_move" /\ ~index_empty_panics(last_op.before)) =>
        LET e == index_empty(last_op.before)
            d == Manhattan(last_op.ix, last_op.iy, e)
        IN  /\ (board # last_op.before) <=> (d = 1)
            /\ d # 1 => board = last_op.before

\* C4 witness: both cases have happened: the last try_move aimed at a diagonal
\* neighbour of the empty cell and changed nothing, after earlier moves did.
C4_Witness ==
    /\ last_op.op = "try_move"
    /\ Len(trail) >= 2
    /\ board = last_op.before
    /\ abs_diff(last_op.ix, index_empty(board)[1]) = 1
    /\ abs_diff(last_op.iy, index_empty(board)[2]) = 1

\* C5: after a legal move the empty cell's old place is a legal target, and
\* moving it restores the board that existed before the first move.
C5_Reversible ==
    /\ (Len(trail) >= 2 /\ ~index_empty_panics(board)) =>
          LET prev == trail[Len(trail) - 1]
              e == index_empty(prev)
          IN  /\ is_move_valid(board, e[1], e[2])
              /\ try_move(board, e[1], e[2]) = prev
    /\ (Len(trail) >= 3 /\ last_op.op = "try_move" /\ board # last_op.before
            /\ <<last_op.ix, last_op.iy>> = index_empty(trail[Len(trail) - 2])) =>
          board = trail[Len(trail) - 2]

\* C5 witness: a legal move and then the move back have both been applied.
C5_Witness ==
    /\ Len(trail) >= 3
    /\ last_op.op = "try_move"
    /\ last_op.before = trail[Len(trail) - 1]
    /\ board # last_op.before
    /\ board = trail[Len(trail) - 2]

\* C6: after reset the board equals the board of a fresh construction of the
\* same side, whatever came before, and a further reset leaves it as it is.
C6_ResetRestores ==
    last_op.op = "reset" =>
        /\ board = solved_board(grid_size)
        /\ reset(board, grid_size) = board

\* C6 witness: reset applied to a board that moves had changed.
C6_Witness ==
    /\ last_op.op = "reset"
    /\ last_op.before # solved_board(grid_size)
    /\ board = solved_board(grid_size)

RECURSIVE SolvableWithin(_, _)
SolvableWithin(b, k) ==
    \/ b = solved_board(Side(b))
    \/ /\ k > 0
       /\ ~index_empty_panics(b)
       /\ \E t \in Cells(Side(b)) :
             /\ is_move_valid(b, t[1], t[2])
             /\ SolvableWithin(try_move(b, t[1], t[2]), k - 1)

\* C7: from every reachable board a sequence of legal moves, no longer than
\* the moves applied since the board was last solved, leads back to the
\* solved board.
C7_Solvable == SolvableWithin(board, Len(trail) - 1)

\* C7 witness: scramble steps and moves have taken the board as far from
\* solved as the model goes.
C7_Witness ==
    /\ last_op.op = "do_one_random_move"
    /\ Len(trail) = MaxMoves + 1
    /\ ~SolvableWithin(board, 1)

\* C9: after a legal try_move(ix, iy) the old empty cell holds the tile that
\* was at (ix, iy), (ix, iy) holds 0, index_empty returns (ix, iy), and no
\* other cell has changed.
C9_LegalMoveEffect ==
    (last_op.op = "try_move" /\ ~index_empty_panics(last_op.before)
        /\ Manhattan(last_op.ix, last_op.iy, index_empty(last_op.before)) = 1) =>
        LET old == last_op.before
            e == index_empty(old)
            ix == last_op.ix
            iy == last_op.iy
        IN  /\ board[e[2]][e[1]] = old[iy][ix]
            /\ board[iy][ix] = 0
            /\ ~index_empty_panics(board)
            /\ index_empty(board) = <<ix, iy>>
            /\ \A c \in Cells(grid_size) :
                  (c # e /\ c # <<ix, iy>>) => board[c[2]][c[1]] = old[c[2]][c[1]]
            /\ {c \in Cells(grid_size) : board[c[2]][c[1]] # old[c[2]][c[1]]}
                  = {e, <<ix, iy>>}

\* C9 witness: a legal try_move applied to a board other than the solved one.
C9_Witness ==
    /\ last_op.op = "try_move"
    /\ board # last_op.before
    /\ last_op.before # solved_board(grid_size)
    /\ board[last_op.iy][last_op.ix] = 0

(***************************************************************************)
(* Properties of update_image, checked under RenderSpec.                   *)
(***************************************************************************)
\* the image on display is update_image's, made from the board and the
\* solved image as they are now
Rendered == last_op.op = "update_image" /\ ~panicked

IsSolved == board = solved_board(grid_size)

\* the destination block of the cell (row 0, col grid_size - 1), the empty
\* cell of a solved board: the bottom-right block of the image
InEmptyBlock(p, size, n) ==
    /\ p[1] >= (n - 1) * (size \div n)
    /\ p[2] >= size - (size \div n)

\* C8 as amended: for a solved board and a solved image whose side is an
\* exact multiple of grid_size, every pixel of the rendered image outside the
\* empty cell's block equals the solved image's pixel at the same place, and
\* the pixels of that block are blank.
C8_RenderSolved ==
    (Rendered /\ IsSolved /\ image_solved.size % grid_size = 0) =>
        /\ image.size = image_solved.size
        /\ \A p \in Pixels(image_solved.size) :
              image.px[p] = IF InEmptyBlock(p, image_solved.size, grid_size)
                            THEN Blank
                            ELSE image_solved.px[p]

\* C8 witness: a solved 3 x 3 board rendered from a file's image with cells
\* of 2 x 2 pixels.
C8_Witness ==
    /\ Rendered /\ IsSolved
    /\ grid_size = 3
    /\ image_solved.size = 2 * grid_size
    /\ image_original # 0

\* C8 as stated: every pixel of the image rendered from a solved board
\* equals the solved image's pixel at the same place.
C8_Original ==
    (Rendered /\ IsSolved) =>
        \A p \in Pixels(image_solved.size) : image.px[p] = image_solved.px[p]

(***************************************************************************)
(* Properties of the event loop, checked under AppSpec.                    *)
(***************************************************************************)
\* C10 as stated: a scramble started by the S key applies exactly 100
\* do_one_random_move steps, one per update, before flag_scramble is cleared:
\* whenever no scramble is running, the last one (if any) made 100 moves.
C10_Original ==
    (~flag_scramble /\ ~panicked) => scramble_moves \in {0, ScrambleLimit}

(***************************************************************************)
(* Properties of the loop of do_one_random_move, checked under LoopSpec.   *)
(***************************************************************************)
\* C11: while the loop of do_one_random_move runs, some cell it can draw is a
\* valid move; under fair sampling the loop is left; and when it has been
\* left exactly one move was applied: the empty cell is orthogonally next to
\* where it was and the tile that was there has taken its place.
C11_LoopTerminates ==
    /\ [](pc = "sampling" =>
            \E c \in Cells(grid_size) : is_move_valid(board, c[1], c[2]))
    /\ (pc = "sampling") ~> (pc = "idle")
    /\ []((pc = "idle" /\ last_op.op = "do_one_random_move") =>
            LET old == last_op.before
                e == index_empty(old)
                t == index_empty(board)
            IN  /\ Manhattan(t[1], t[2], e) = 1
                /\ board[e[2]][e[1]] = old[t[2]][t[1]]
                /\ {c \in Cells(grid_size) : board[c[2]][c[1]] # old[c[2]][c[1]]}
                      = {e, t})

\* C11 witness: the loop was entered away from the solved board and has
\* been left with its move applied.
C11_Witness ==
    /\ pc = "idle"
    /\ last_op.op = "do_one_random_move"
    /\ last_op.before # solved_board(grid_size)
    /\ board # last_op.before

(***************************************************************************)
(* Properties of the click mapping, checked under ClickSpec.               *)
(***************************************************************************)
\* C18: in a square window every click that mouse_clicked accepts as inside
\* the board, its edge included, reaches try_move with both indices in
\* 0 .. grid_size - 1.
C18_Original ==
    last_op.op = "try_move" =>
        /\ last_op.ix \in 0 .. grid_size - 1
        /\ last_op.iy \in 0 .. grid_size - 1

(***************************************************************************)
(* Properties of try_move on targets outside the board, under BoundsSpec.  *)
(***************************************************************************)
\* C15: try_move called with a column or a row of grid_size or more, also
\* one at distance 1 from the empty cell, returns normally and leaves the
\* board as it was.
C15_Original ==
    (last_op.op = "try_move" /\ ~InBounds(last_op.before, last_op.ix, last_op.iy)) =>
        /\ ~panicked
        /\ board = last_op.before

(***************************************************************************)
(* Properties of a scramble under interleaved events, under AppFairSpec.   *)
(***************************************************************************)
\* C12: once flag_scramble is set, whatever events come in between (clicks,
\* R, N, Period, Comma, S), the scramble comes to its end under fair update
\* ticks: flag_scramble is false and scramble_count is 0 again.
C12_Original == flag_scramble ~> (~flag_scramble /\ scramble_count = 0)

(***************************************************************************)
(* Properties of update_image on any board, checked under RenderSpec.      *)
(***************************************************************************)
\* the pixels of the block of side cs whose first pixel is (x0, y0)
Block(x0, y0, cs) == {<<x0 + dx, y0 + dy>> : dx \in 0 .. cs - 1, dy \in 0 .. cs - 1}

\* the destination block of the cell (col, row) in an image of side size
DestBlock(c, size, n) ==
    Block(c[1] * (size \div n), size - (c[2] + 1) * (size \div n), size \div n)

\* C13: when the side S of the solved image is an exact multiple of
\* grid_size, with cs = S / grid_size, the rendered image has in the block at
\* (col * cs, S - (row + 1) * cs) of every cell (col, row) holding a piece
\* p # 0 the block of the solved image at (((p - 1) mod n) * cs,
\* ((p - 1) div n) * cs), the block of the cell holding 0 is blank, the
\* blocks of distinct cells are disjoint, and the blocks cover the image, so
\* that nothing of the image displayed before is left.
C13_RenderPlacement ==
    (Rendered /\ image_solved.size % grid_size = 0) =>
        LET S == image_solved.size
            n == grid_size
            cs == S \div n
        IN  /\ image.size = S
            /\ \A c \in Cells(n) :
                 LET p == board[c[2]][c[1]]
                 IN  \A dx \in 0 .. cs - 1 : \A dy \in 0 .. cs - 1 :
                       image.px[<<c[1] * cs + dx, S - (c[2] + 1) * cs + dy>>] =
                          IF p = 0 THEN Blank
                          ELSE image_solved.px[<<((p - 1) % n) * cs + dx,
                                                 ((p - 1) \div n) * cs + dy>>]
            /\ \A c \in Cells(n) : \A d \in Cells(n) :
                 c # d => DestBlock(c, S, n) \cap DestBlock(d, S, n) = {}
            /\ UNION {DestBlock(c, S, n) : c \in Cells(n)} = Pixels(S)

\* C13 witness: a 3 x 3 board that is not solved, rendered from a file's
\* image with cells of 2 x 2 pixels.
C13_Witness ==
    /\ Rendered /\ ~IsSolved
    /\ grid_size = 3
    /\ image_solved.size = 2 * grid_size
    /\ image_original # 0
    /\ Len(trail) > 2

\* the pixels left over when the side of the solved image is cut into
\* grid_size cells
Remainder == image_solved.size % grid_size

\* C14 as amended: when the side S of the solved image is not a multiple of
\* grid_size (r = S mod grid_size > 0, cs = S div grid_size), the image
\* rendered from a solved board is the solved image moved down by r pixels:
\* every pixel (x, y) with x < n * cs and y >= r outside the empty cell's
\* block equals the solved image's pixel (x, y - r); the top r rows, the last
\* r columns and the empty cell's block are blank. The last r rows and
\* columns of the solved image are not copied.
C14_RenderShifted ==
    (Rendered /\ IsSolved /\ Remainder > 0) =>
        LET S == image_solved.size
            n == grid_size
            cs == S \div n
        IN  /\ image.size = S
            /\ \A p \in Pixels(S) :
                 image.px[p] =
                    IF p[1] < n * cs /\ p[2] >= Remainder /\ ~InEmptyBlock(p, S, n)
                    THEN image_solved.px[<<p[1], p[2] - Remainder>>]
                    ELSE Blank

\* C14 witness: a solved 2 x 2 board rendered from a file's image of side 5,
\* cells of 2 x 2 pixels and one pixel left over.
C14_Witness ==
    /\ Rendered /\ IsSolved
    /\ Remainder > 0
    /\ image_solved.size \div grid_size >= 2
    /\ image_original # 0

\* C14 as stated: with r > 0 the image rendered from a solved board has at
\* every pixel (x, y) with x < n * cs and y < n * cs outside the empty cell
\* the solved image's pixel (x, y).
C14_Original ==
    (Rendered /\ IsSolved /\ Remainder > 0) =>
        LET S == image_solved.size
            n == grid_size
            cs == S \div n
        IN  \A p \in Pixels(S) :
              (/\ p[1] < n * cs
               /\ p[2] < n * cs
               /\ ~(p[1] >= (n - 1) * cs /\ p[2] >= (n - 1) * cs))
                 => image.px[p] = image_solved.px[p]

(***************************************************************************)
(* Properties of the key events and of window_resized, under KeysSpec.     *)
(***************************************************************************)
\* C16: with an empty image list too, every key event is handled without
\* failure; and with one file or more image_index_current stays in
\* 0 .. len - 1, next_image and previous_image being cyclic steps that undo
\* each other.
C16_Original ==
    /\ ~panicked
    /\ image_list_len >= 1 =>
          /\ image_index_current \in 0 .. image_list_len - 1
          /\ previous_index(next_index(image_index_current, image_list_len),
                            image_list_len) = image_index_current
          /\ next_index(previous_index(image_index_current, image_list_len),
                        image_list_len) = image_index_current

\* C17: a step of next_image, previous_image, window_resized or the numbers
\* toggle (a step that changes the image index, the original or the solved
\* image or flag_show_numbers, or that is a resize) leaves board,
\* flag_scramble and scramble_count as they were.
C17_Frame ==
    [][(\/ image_index_current' # image_index_current
        \/ image_original' # image_original
        \/ image_solved' # image_solved
        \/ flag_show_numbers' # flag_show_numbers
        \/ (last_op' # last_op /\ last_op'.op = "window_resized"))
          => /\ board' = board
             /\ flag_scramble' = flag_scramble
             /\ scramble_count' = scramble_count]_vars

\* C17 witness: a scramble is in progress on a board that is not solved, and
\* the image has been changed, the numbers switched off and the window
\* resized.
C17_Witness ==
    /\ flag_scramble /\ scramble_count > 0
    /\ board # solved_board(grid_size)
    /\ image_index_current > 0
    /\ ~flag_show_numbers
    /\ last_op.op = "window_resized"
    /\ image_solved.size # MaxImgSize

(***************************************************************************)
(* Properties of the scramble's bookkeeping, checked under AppSpec.        *)
(***************************************************************************)
\* C19: between events and ticks scramble_count is at most 100, and it is 0
\* whenever flag_scramble is false; scramble_count changes only in an update
\* tick taken while flag_scramble is true (the tick that makes one more
\* scramble move).
C19_Bookkeeping ==
    /\ [](scramble_count \in 0 .. ScrambleLimit)
    /\ [](~flag_scramble => scramble_count = 0)
    /\ [][scramble_count' # scramble_count =>
            (flag_scramble /\ scramble_moves' = scramble_moves + 1)]_vars

\* C19 witness: a scramble at its last tick but one, the counter at 100.
C19_Witness == flag_scramble /\ scramble_count = ScrambleLimit /\ ~panicked

(***************************************************************************)
(* Properties of one uninterrupted scramble, under OneScrambleSpec.        *)
(***************************************************************************)
\* emptyCol + emptyRow modulo 2
EmptyParity(b) == (index_empty(b)[1] + index_empty(b)[2]) % 2

\* the board the scramble started from
ScrambleStart == trail[Len(trail)]

\* C20: every move of a scramble flips the parity of emptyCol + emptyRow
\* (after k moves it differs from the start's parity by k modulo 2); a
\* scramble that was started by one S press and ran with no other event has
\* applied an odd number of moves when it ends, so the board then differs
\* from the board it started from, and one started from the solved board does
\* not end on the solved board.
C20_ScrambleChangesBoard ==
    /\ EmptyParity(board) = (EmptyParity(ScrambleStart) + scramble_moves) % 2
    /\ (~flag_scramble /\ scramble_moves > 0) =>
          /\ scramble_moves % 2 = 1
          /\ board # ScrambleStart
          /\ ScrambleStart = solved_board(grid_size) => board # solved_board(grid_size)

\* C20 witness: a scramble started from a board two or more moves away from
\* the solved one has ended.
C20_Witness ==
    /\ ~flag_scramble
    /\ scramble_moves > 0
    /\ scramble_count = 0
    /\ Len(trail) > 2

====
